---- MODULE Spec2Model ----
(***************************************************************************)
(* Model of scripts/validate_config.py: the ConfigValidator that checks a  *)
(* parsed TOML configuration document section by section and returns      *)
(* (ok, issues), and main, the command-line wrapper that validates a file  *)
(* or prints the schema and gives the exit status of the run.              *)
(*                                                                         *)
(* Documents are trees of tagged values.  A Python str is a sequence of    *)
(* one-character strings, so that startswith, substring containment and    *)
(* the size pattern are computed character by character.  Mapping keys and *)
(* issue paths are TLA+ strings; Chars gives a key's characters where the  *)
(* code treats a key as text.  A float is held in tenths (15 is 1.5).      *)
(***************************************************************************)
EXTENDS Integers, Sequences, FiniteSets, TLC

VARIABLES mode, self, issues, heap, pc, source, config, routines, result, exc, budget,
          exit, schema, returned

vars == <<mode, self, issues, heap, pc, source, config, routines, result, exc, budget,
          exit, schema, returned>>

(***************************************************************************)
(* Bounds of the model.                                                    *)
(***************************************************************************)
\* top-level keys of a combined document
MaxKeys == 2
\* elements of a generated allowed_commands / allowed_extensions array
MaxElems == 2
\* runs of the command-line wrapper in one behaviour
MaxRuns == 2
\* validate_file calls on one validator, one after the other
MaxCalls == 2

(***************************************************************************)
(* Document values: the shapes toml.load produces.                         *)
(***************************************************************************)
VStr(s) == [t |-> "str", s |-> s]
VInt(i) == [t |-> "int", i |-> i]
VFloat(f) == [t |-> "float", f |-> f]
VBool(b) == [t |-> "bool", b |-> b]
VSeq(q) == [t |-> "seq", q |-> q]
\* a mapping: its entries m and its keys in insertion order o, the order in
\* which a dict is walked
EmptyMap == [t |-> "map", o |-> <<>>, m |-> <<>>]
Put(map, k, v) == [t |-> "map", o |-> Append(map.o, k), m |-> (k :> v) @@ map.m]
Map1(k, v) == Put(EmptyMap, k, v)
Map2(k1, v1, k2, v2) == Put(Map1(k1, v1), k2, v2)

KeyNames ==
    {"api", "repl", "logging", "tools", "session", "ui",
     "response", "network", "security", "debug", "aliases", "models",
     "prompts", "features", "api_key", "model", "base_url", "timeout",
     "max_retries", "retry_delay", "history_size", "auto_save_interval", "colored_prompt", "welcome_banner",
     "vi_mode", "multiline_mode", "level", "format", "max_file_size", "max_files",
     "log_requests", "file", "allowed_extensions", "commands", "allowed_commands", "max_context_size",
     "prune_strategy", "auto_save", "default_dir", "theme", "spinner_style", "max_width",
     "temperature", "max_tokens", "proxy_url", "timeout_connect", "timeout_read", "mask_api_key",
     "audit_tools", "validate_ssl", "sanitize_logs", "show_raw_api_calls", "save_recordings", "verbose_errors",
     "mock_delay_ms", "plugins", "extra", "comment", "ll", "sys",
     "beta", "fast", "rm"}

Chars(k) ==
    CASE k = "api" -> <<"a", "p", "i">>
      [] k = "repl" -> <<"r", "e", "p", "l">>
      [] k = "logging" -> <<"l", "o", "g", "g", "i", "n", "g">>
      [] k = "tools" -> <<"t", "o", "o", "l", "s">>
      [] k = "session" -> <<"s", "e", "s", "s", "i", "o", "n">>
      [] k = "ui" -> <<"u", "i">>
      [] k = "response" -> <<"r", "e", "s", "p", "o", "n", "s", "e">>
      [] k = "network" -> <<"n", "e", "t", "w", "o", "r", "k">>
      [] k = "security" -> <<"s", "e", "c", "u", "r", "i", "t", "y">>
      [] k = "debug" -> <<"d", "e", "b", "u", "g">>
      [] k = "aliases" -> <<"a", "l", "i", "a", "s", "e", "s">>
      [] k = "models" -> <<"m", "o", "d", "e", "l", "s">>
      [] k = "prompts" -> <<"p", "r", "o", "m", "p", "t", "s">>
      [] k = "features" -> <<"f", "e", "a", "t", "u", "r", "e", "s">>
      [] k = "api_key" -> <<"a", "p", "i", "_", "k", "e", "y">>
      [] k = "model" -> <<"m", "o", "d", "e", "l">>
      [] k = "base_url" -> <<"b", "a", "s", "e", "_", "u", "r", "l">>
      [] k = "timeout" -> <<"t", "i", "m", "e", "o", "u", "t">>
      [] k = "max_retries" -> <<"m", "a", "x", "_", "r", "e", "t", "r", "i", "e", "s">>
      [] k = "retry_delay" -> <<"r", "e", "t", "r", "y", "_", "d", "e", "l", "a", "y">>
      [] k = "history_size" -> <<"h", "i", "s", "t", "o", "r", "y", "_", "s", "i", "z", "e">>
      [] k = "auto_save_interval" -> <<"a", "u", "t", "o", "_", "s", "a", "v", "e", "_", "i", "n", "t", "e", "r", "v", "a", "l">>
      [] k = "colored_prompt" -> <<"c", "o", "l", "o", "r", "e", "d", "_", "p", "r", "o", "m", "p", "t">>
      [] k = "welcome_banner" -> <<"w", "e", "l", "c", "o", "m", "e", "_", "b", "a", "n", "n", "e", "r">>
      [] k = "vi_mode" -> <<"v", "i", "_", "m", "o", "d", "e">>
      [] k = "multiline_mode" -> <<"m", "u", "l", "t", "i", "l", "i", "n", "e", "_", "m", "o", "d", "e">>
      [] k = "level" -> <<"l", "e", "v", "e", "l">>
      [] k = "format" -> <<"f", "o", "r", "m", "a", "t">>
      [] k = "max_file_size" -> <<"m", "a", "x", "_", "f", "i", "l", "e", "_", "s", "i", "z", "e">>
      [] k = "max_files" -> <<"m", "a", "x", "_", "f", "i", "l", "e", "s">>
      [] k = "log_requests" -> <<"l", "o", "g", "_", "r", "e", "q", "u", "e", "s", "t", "s">>
      [] k = "file" -> <<"f", "i", "l", "e">>
      [] k = "allowed_extensions" -> <<"a", "l", "l", "o", "w", "e", "d", "_", "e", "x", "t", "e", "n", "s", "i", "o", "n", "s">>
      [] k = "commands" -> <<"c", "o", "m", "m", "a", "n", "d", "s">>
      [] k = "allowed_commands" -> <<"a", "l", "l", "o", "w", "e", "d", "_", "c", "o", "m", "m", "a", "n", "d", "s">>
      [] k = "max_context_size" -> <<"m", "a", "x", "_", "c", "o", "n", "t", "e", "x", "t", "_", "s", "i", "z", "e">>
      [] k = "prune_strategy" -> <<"p", "r", "u", "n", "e", "_", "s", "t", "r", "a", "t", "e", "g", "y">>
      [] k = "auto_save" -> <<"a", "u", "t", "o", "_", "s", "a", "v", "e">>
      [] k = "default_dir" -> <<"d", "e", "f", "a", "u", "l", "t", "_", "d", "i", "r">>
      [] k = "theme" -> <<"t", "h", "e", "m", "e">>
      [] k = "spinner_style" -> <<"s", "p", "i", "n", "n", "e", "r", "_", "s", "t", "y", "l", "e">>
      [] k = "max_width" -> <<"m", "a", "x", "_", "w", "i", "d", "t", "h">>
      [] k = "temperature" -> <<"t", "e", "m", "p", "e", "r", "a", "t", "u", "r", "e">>
      [] k = "max_tokens" -> <<"m", "a", "x", "_", "t", "o", "k", "e", "n", "s">>
      [] k = "proxy_url" -> <<"p", "r", "o", "x", "y", "_", "u", "r", "l">>
      [] k = "timeout_connect" -> <<"t", "i", "m", "e", "o", "u", "t", "_", "c", "o", "n", "n", "e", "c", "t">>
      [] k = "timeout_read" -> <<"t", "i", "m", "e", "o", "u", "t", "_", "r", "e", "a", "d">>
      [] k = "mask_api_key" -> <<"m", "a", "s", "k", "_", "a", "p", "i", "_", "k", "e", "y">>
      [] k = "audit_tools" -> <<"a", "u", "d", "i", "t", "_", "t", "o", "o", "l", "s">>
      [] k = "validate_ssl" -> <<"v", "a", "l", "i", "d", "a", "t", "e", "_", "s", "s", "l">>
      [] k = "sanitize_logs" -> <<"s", "a", "n", "i", "t", "i", "z", "e", "_", "l", "o", "g", "s">>
      [] k = "show_raw_api_calls" -> <<"s", "h", "o", "w", "_", "r", "a", "w", "_", "a", "p", "i", "_", "c", "a", "l", "l", "s">>
      [] k = "save_recordings" -> <<"s", "a", "v", "e", "_", "r", "e", "c", "o", "r", "d", "i", "n", "g", "s">>
      [] k = "verbose_errors" -> <<"v", "e", "r", "b", "o", "s", "e", "_", "e", "r", "r", "o", "r", "s">>
      [] k = "mock_delay_ms" -> <<"m", "o", "c", "k", "_", "d", "e", "l", "a", "y", "_", "m", "s">>
      [] k = "plugins" -> <<"p", "l", "u", "g", "i", "n", "s">>
      [] k = "extra" -> <<"e", "x", "t", "r", "a">>
      [] k = "comment" -> <<"c", "o", "m", "m", "e", "n", "t">>
      [] k = "ll" -> <<"l", "l">>
      [] k = "sys" -> <<"s", "y", "s">>
      [] k = "beta" -> <<"b", "e", "t", "a">>
      [] k = "fast" -> <<"f", "a", "s", "t">>
      [] k = "rm" -> <<"r", "m">>

(***************************************************************************)
(* Python operations on document values.                                   *)
(***************************************************************************)
\* s[i..] begins with p
StartsAt(s, i, p) ==
    /\ i + Len(p) - 1 <= Len(s)
    /\ \A j \in 1..Len(p) : s[i + j - 1] = p[j]

\* str.startswith(p)
StartsWith(s, p) == StartsAt(s, 1, p)

\* p in s, for two str
Substring(p, s) == \E i \in 1..(Len(s) + 1) : StartsAt(s, i, p)

\* `key in container` with a str key: "T", "F", or "E" for the TypeError of a
\* container that is not iterable (int, float, bool)
PyIn(needle, c) ==
    CASE c.t = "map" -> IF \E k \in DOMAIN c.m : Chars(k) = needle THEN "T" ELSE "F"
      [] c.t = "str" -> IF Substring(needle, c.s) THEN "T" ELSE "F"
      [] c.t = "seq" -> IF \E j \in 1..Len(c.q) : c.q[j] = VStr(needle) THEN "T" ELSE "F"
      [] OTHER -> "E"

\* isinstance(value, int): bool is a subclass of int
IsInstanceInt(v) == v.t \in {"int", "bool"}

\* isinstance(value, (int, float))
IsInstanceNumber(v) == v.t \in {"int", "float", "bool"}

\* the number a numeric value compares as, in tenths (True is 1, False is 0)
Tenths(v) ==
    CASE v.t = "int" -> 10 * v.i
      [] v.t = "float" -> v.f
      [] v.t = "bool" -> IF v.b THEN 10 ELSE 0

\* bool(value): Python truthiness
Truthy(v) ==
    CASE v.t = "str" -> Len(v.s) > 0
      [] v.t = "int" -> v.i # 0
      [] v.t = "float" -> v.f # 0
      [] v.t = "bool" -> v.b
      [] v.t = "seq" -> Len(v.q) > 0
      [] v.t = "map" -> DOMAIN v.m # {}

\* hash(value) raises TypeError for list and dict
Unhashable(v) == v.t \in {"seq", "map"}

(***************************************************************************)
(* Issues.  A message is its fixed text and the value interpolated into it *)
(* (arg); the ", ".join of a set, whose order Python does not fix, is left  *)
(* out of the text.                                                        *)
(***************************************************************************)
ERROR == "ERROR"
WARNING == "WARNING"
INFO == "INFO"
ValidationLevel == {ERROR, WARNING, INFO}

NoArg == [t |-> "none"]
KeyArg(k) == [t |-> "key", k |-> k]
RangeArg(lo, hi) == [t |-> "range", lo |-> lo, hi |-> hi]

ValidationIssue(level, path, message, arg) ==
    [level |-> level, path |-> path, message |-> message, arg |-> arg]

\* The running state of one routine: the issues it appended so far and the
\* exception that ended it ("" while it runs).
Start == [iss |-> <<>>, exc |-> ""]

Raise(r, e) == IF r.exc = "" THEN [r EXCEPT !.exc = e] ELSE r

add_error(r, path, message, arg) ==
    IF r.exc # "" THEN r
    ELSE [r EXCEPT !.iss = Append(@, ValidationIssue(ERROR, path, message, arg))]

\* a warning recorded with the severity of an error
add_warning_as_error(r, path, message, arg) == add_error(r, path, message, arg)

add_warning(r, path, message, arg) ==
    IF r.exc # "" THEN r
    ELSE [r EXCEPT !.iss = Append(@, ValidationIssue(WARNING, path, message, arg))]

add_info(r, path, message, arg) ==
    IF r.exc # "" THEN r
    ELSE [r EXCEPT !.iss = Append(@, ValidationIssue(INFO, path, message, arg))]

(***************************************************************************)
(* Class constants of ConfigValidator.                                     *)
(***************************************************************************)
\* Valid models
VALID_MODELS ==
    {<<"g", "e", "m", "i", "n", "i", "-", "1", ".", "5", "-", "f", "l", "a", "s", "h">>,
     <<"g", "e", "m", "i", "n", "i", "-", "1", ".", "5", "-", "p", "r", "o">>,
     <<"g", "e", "m", "i", "n", "i", "-", "2", ".", "0", "-", "f", "l", "a", "s", "h", "-", "e", "x", "p">>,
     <<"g", "e", "m", "i", "n", "i", "-", "p", "r", "o">>,
     <<"g", "e", "m", "i", "n", "i", "-", "p", "r", "o", "-", "v", "i", "s", "i", "o", "n">>}

\* Valid log levels
VALID_LOG_LEVELS ==
    {<<"e", "r", "r", "o", "r">>,
     <<"w", "a", "r", "n">>,
     <<"i", "n", "f", "o">>,
     <<"d", "e", "b", "u", "g">>,
     <<"t", "r", "a", "c", "e">>}

\* Valid log formats
VALID_LOG_FORMATS ==
    {<<"j", "s", "o", "n">>,
     <<"p", "r", "e", "t", "t", "y">>,
     <<"c", "o", "m", "p", "a", "c", "t">>}

\* Valid themes
VALID_THEMES ==
    {<<"d", "e", "f", "a", "u", "l", "t">>,
     <<"m", "i", "n", "i", "m", "a", "l">>,
     <<"s", "o", "l", "a", "r", "i", "z", "e", "d">>,
     <<"d", "r", "a", "c", "u", "l", "a">>}

\* Valid spinner styles
VALID_SPINNER_STYLES ==
    {<<"d", "o", "t", "s">>,
     <<"l", "i", "n", "e">>,
     <<"s", "i", "m", "p", "l", "e">>}

\* Dangerous commands to warn about
DANGEROUS_COMMANDS ==
    {<<"r", "m">>,
     <<"d", "d">>,
     <<"m", "k", "f", "s">>,
     <<"f", "d", "i", "s", "k">>,
     <<"s", "h", "r", "e", "d">>,
     <<"c", "h", "m", "o", "d">>,
     <<"c", "h", "o", "w", "n">>,
     <<">">>,
     <<">", ">">>,
     <<"|">>}

\* session.prune_strategy
valid_strategies ==
    {<<"o", "l", "d", "e", "s", "t">>,
     <<"s", "u", "m", "m", "a", "r", "i", "z", "e">>,
     <<"s", "m", "a", "r", "t">>}

\* response.format
valid_formats ==
    {<<"a", "u", "t", "o">>,
     <<"p", "l", "a", "i", "n">>,
     <<"m", "a", "r", "k", "d", "o", "w", "n">>,
     <<"j", "s", "o", "n">>}

\* the units of SIZE_PATTERN, lower case: (B|KB?|MB?|GB?)?
SIZE_UNITS ==
    {<<>>,
     <<"b">>,
     <<"k">>,
     <<"k", "b">>,
     <<"m">>,
     <<"m", "b">>,
     <<"g">>,
     <<"g", "b">>}

HttpPrefix == <<"h", "t", "t", "p", ":", "/", "/">>
HttpsPrefix == <<"h", "t", "t", "p", "s", ":", "/", "/">>
Dot == <<".">>

Digits == {"0", "1", "2", "3", "4", "5", "6", "7", "8", "9"}
\* the characters \s matches
Whitespace == {" ", "\t", "\n", "\r", "\f"}

(***************************************************************************)
(* Helper methods (constraint primitives).                                 *)
(***************************************************************************)
\* the int a value of type int or bool compares as
IntOf(v) == IF v.t = "bool" THEN (IF v.b THEN 1 ELSE 0) ELSE v.i

\* validate_integer_range with the bounds taken as exclusive
validate_integer_range_exclusive(r, path, value, min_val, max_val) ==
    IF ~IsInstanceInt(value)
    THEN add_error(r, path, "Must be an integer", NoArg)
    ELSE IF IntOf(value) <= min_val \/ IntOf(value) >= max_val
         THEN add_error(r, path, "Must be between", RangeArg(min_val, max_val))
         ELSE r

validate_integer_range(r, path, value, min_val, max_val) ==
    IF ~IsInstanceInt(value)
    THEN add_error(r, path, "Must be an integer", NoArg)
    ELSE IF IntOf(value) < min_val \/ IntOf(value) > max_val
         THEN add_error(r, path, "Must be between", RangeArg(min_val, max_val))
         ELSE r

\* min_val and max_val in tenths
validate_float_range(r, path, value, min_val, max_val) ==
    IF ~IsInstanceNumber(value)
    THEN add_error(r, path, "Must be a number", NoArg)
    ELSE IF Tenths(value) < min_val \/ Tenths(value) > max_val
         THEN add_error(r, path, "Must be between", RangeArg(min_val, max_val))
         ELSE r

\* validate_boolean that lets the integers 0 and 1 pass for booleans
validate_boolean_coercing(r, path, value) ==
    IF value.t # "bool" /\ value \notin {VInt(0), VInt(1)}
    THEN add_error(r, path, "Must be true or false", NoArg)
    ELSE r

validate_boolean(r, path, value) ==
    IF value.t # "bool"
    THEN add_error(r, path, "Must be true or false", NoArg)
    ELSE r

\* "T" / "F", or "E": url.startswith raises AttributeError when url is no str
is_valid_url(url) ==
    IF url.t # "str" THEN "E"
    ELSE IF StartsWith(url.s, HttpPrefix) \/ StartsWith(url.s, HttpsPrefix)
         THEN "T" ELSE "F"

\* the first index >= i of s whose character is not in class (Len(s)+1 if none)
RECURSIVE Skip(_, _, _)
Skip(s, i, class) ==
    IF i <= Len(s) /\ s[i] \in class THEN Skip(s, i + 1, class) ELSE i

LowerUnit(c) ==
    CASE c = "B" -> "b" [] c = "K" -> "k" [] c = "M" -> "m" [] c = "G" -> "g"
      [] OTHER -> c

\* SIZE_PATTERN.match(s): ^\d+(\.\d+)?\s*(B|KB?|MB?|GB?)?$ with re.IGNORECASE;
\* $ also matches before one trailing newline
MatchSize(s) ==
    LET i1 == Skip(s, 1, Digits)
        d2 == IF i1 <= Len(s) /\ s[i1] = "." THEN Skip(s, i1 + 1, Digits) ELSE i1
        i2 == IF d2 > i1 + 1 THEN d2 ELSE i1
        Rest(i) == [j \in 1..(Len(s) - i + 1) |-> LowerUnit(s[i + j - 1])]
        AtEnd(i) ==
            \/ Rest(i) \in SIZE_UNITS
            \/ \E u \in SIZE_UNITS : Rest(i) = u \o <<"\n">>
    IN  /\ i1 > 1
        /\ \E i3 \in i2..Skip(s, i2, Whitespace) : AtEnd(i3)

\* str(size) matches: an int or float prints as digits when it is not negative,
\* a bool as True/False, a list or dict with brackets
is_valid_size(size) ==
    CASE size.t = "str" -> MatchSize(size.s)
      [] size.t = "int" -> size.i >= 0
      [] size.t = "float" -> size.f >= 0
      [] OTHER -> FALSE

(***************************************************************************)
(* The shapes the section routines share.                                  *)
(***************************************************************************)
\* if name in sec: Then           (TypeError when sec is not iterable)
IfIn(r, name, sec, Then(_)) ==
    IF r.exc # "" THEN r
    ELSE LET p == PyIn(Chars(name), sec)
         IN  CASE p = "E" -> Raise(r, "TypeError")
               [] p = "F" -> r
               [] p = "T" -> Then(r)

\* if name in sec: Then(sec[name])   (sec[name] raises TypeError on str and list)
IfInGet(r, name, sec, Then(_, _)) ==
    IfIn(r, name, sec,
         LAMBDA q : IF sec.t = "map" THEN Then(q, sec.m[name])
                    ELSE Raise(q, "TypeError"))

\* if value not in valid: add an issue   (TypeError: unhashable list / dict)
NotInSet(r, level, path, value, valid, message, arg) ==
    IF Unhashable(value) THEN Raise(r, "TypeError")
    ELSE IF value.t = "str" /\ value.s \in valid THEN r
    ELSE IF level = ERROR THEN add_error(r, path, message, arg)
    ELSE add_warning(r, path, message, arg)

(***************************************************************************)
(* Section routines.  Each takes the value found under its top-level key   *)
(* and gives the issues it appends and the exception that ends it, if any. *)
(***************************************************************************)
validate_api(api) ==
    LET r1 == IfIn(Start, "api_key", api,
                   LAMBDA r : add_warning(r, "api.api_key",
                                          "API key should not be stored in config file", NoArg))
        r2 == IfInGet(r1, "model", api,
                   LAMBDA r, v : NotInSet(r, ERROR, "api.model", v, VALID_MODELS,
                                          "Invalid model", v))
        r3 == IfInGet(r2, "base_url", api,
                   LAMBDA r, v : CASE is_valid_url(v) = "E" -> Raise(r, "AttributeError")
                                   [] is_valid_url(v) = "F" ->
                                          add_error(r, "api.base_url", "Invalid URL format", NoArg)
                                   [] OTHER -> r)
        r4 == IfInGet(r3, "timeout", api,
                   LAMBDA r, v : validate_integer_range(r, "api.timeout", v, 1, 300))
        r5 == IfInGet(r4, "max_retries", api,
                   LAMBDA r, v : validate_integer_range(r, "api.max_retries", v, 0, 10))
        r6 == IfInGet(r5, "retry_delay", api,
                   LAMBDA r, v : validate_float_range(r, "api.retry_delay", v, 1, 600))
    IN  r6

\* for field in bool_fields: if field in sec: validate_boolean(f"{prefix}.{field}", sec[field])
RECURSIVE BoolFields(_, _, _, _)
BoolFields(r, prefix, bool_fields, sec) ==
    IF bool_fields = <<>> THEN r
    ELSE BoolFields(
             IfInGet(r, Head(bool_fields), sec,
                     LAMBDA q, v : validate_boolean(q, prefix \o "." \o Head(bool_fields), v)),
             prefix, Tail(bool_fields), sec)

validate_repl(repl) ==
    LET r1 == IfInGet(Start, "history_size", repl,
                   LAMBDA r, v : validate_integer_range(r, "repl.history_size", v, 0, 100000))
        r2 == IfInGet(r1, "auto_save_interval", repl,
                   LAMBDA r, v : validate_integer_range(r, "repl.auto_save_interval", v, 0, 3600))
    IN  BoolFields(r2, "repl",
                   <<"colored_prompt", "welcome_banner", "vi_mode", "multiline_mode">>, repl)

validate_logging(logging) ==
    LET r1 == IfInGet(Start, "level", logging,
                   LAMBDA r, v : NotInSet(r, ERROR, "logging.level", v, VALID_LOG_LEVELS,
                                          "Invalid log level", v))
        r2 == IfInGet(r1, "format", logging,
                   LAMBDA r, v : NotInSet(r, ERROR, "logging.format", v, VALID_LOG_FORMATS,
                                          "Invalid log format", v))
        r3 == IfInGet(r2, "max_file_size", logging,
                   LAMBDA r, v : IF ~is_valid_size(v)
                                 THEN add_error(r, "logging.max_file_size",
                                                "Invalid size format. Use: 10MB, 1GB, etc.", NoArg)
                                 ELSE r)
        r4 == IfInGet(r3, "max_files", logging,
                   LAMBDA r, v : validate_integer_range(r, "logging.max_files", v, 1, 100))
    IN  r4

\* for ext in allowed_extensions: one error for each element that is no str
\* starting with "."
RECURSIVE Extensions(_, _)
Extensions(r, exts) ==
    IF exts = <<>> THEN r
    ELSE LET ext == Head(exts)
         IN  Extensions(
                 IF ext.t # "str" \/ ~StartsWith(ext.s, Dot)
                 THEN add_error(r, "tools.allowed_extensions", "Invalid extension format", ext)
                 ELSE r,
                 Tail(exts))

\* for dangerous in DANGEROUS_COMMANDS: if dangerous in cmd: add_warning(...)
\* The set is walked in whatever order; every warning of one cmd is the same
\* issue, and the TypeError of a cmd that is not iterable comes at the first
\* fragment, so the order does not show.
RECURSIVE DangerousScan(_, _, _)
DangerousScan(r, cmd, fragments) ==
    IF fragments = {} \/ r.exc # "" THEN r
    ELSE LET dangerous == CHOOSE d \in fragments : TRUE
             p == PyIn(dangerous, cmd)
         IN  DangerousScan(
                 CASE p = "E" -> Raise(r, "TypeError")
                   [] p = "T" -> add_warning(r, "tools.commands.allowed_commands",
                                             "Potentially dangerous command", cmd)
                   [] OTHER -> r,
                 cmd, fragments \ {dangerous})

RECURSIVE Commands(_, _)
Commands(r, cmds) ==
    IF cmds = <<>> \/ r.exc # "" THEN r
    ELSE Commands(DangerousScan(r, Head(cmds), DANGEROUS_COMMANDS), Tail(cmds))

validate_tools_commands(r0, commands) ==
    LET r1 == IfInGet(r0, "timeout", commands,
                   LAMBDA r, v : validate_integer_range(r, "tools.commands.timeout", v, 1, 300))
        r2 == IfInGet(r1, "allowed_commands", commands,
                   LAMBDA r, v : IF v.t # "seq"
                                 THEN add_error(r, "tools.commands.allowed_commands",
                                                "Must be an array of strings", NoArg)
                                 ELSE Commands(r, v.q))
    IN  r2

validate_tools(tools) ==
    LET r1 == IfInGet(Start, "max_file_size", tools,
                   LAMBDA r, v : IF ~is_valid_size(v)
                                 THEN add_error(r, "tools.max_file_size",
                                                "Invalid size format", NoArg)
                                 ELSE r)
        r2 == IfInGet(r1, "allowed_extensions", tools,
                   LAMBDA r, v : IF v.t # "seq"
                                 THEN add_error(r, "tools.allowed_extensions",
                                                "Must be an array of strings", NoArg)
                                 ELSE Extensions(r, v.q))
        r3 == IfInGet(r2, "commands", tools,
                   LAMBDA r, v : validate_tools_commands(r, v))
    IN  r3

validate_session(session) ==
    LET r1 == IfInGet(Start, "max_context_size", session,
                   LAMBDA r, v : validate_integer_range(r, "session.max_context_size", v,
                                                        1000, 1000000))
        r2 == IfInGet(r1, "prune_strategy", session,
                   LAMBDA r, v : NotInSet(r, ERROR, "session.prune_strategy", v,
                                          valid_strategies, "Invalid strategy", NoArg))
    IN  r2

validate_ui(ui) ==
    LET r1 == IfInGet(Start, "theme", ui,
                   LAMBDA r, v : NotInSet(r, WARNING, "ui.theme", v, VALID_THEMES,
                                          "Unknown theme", v))
        r2 == IfInGet(r1, "spinner_style", ui,
                   LAMBDA r, v : NotInSet(r, ERROR, "ui.spinner_style", v,
                                          VALID_SPINNER_STYLES, "Invalid spinner style", NoArg))
        r3 == IfInGet(r2, "max_width", ui,
                   LAMBDA r, v : validate_integer_range(r, "ui.max_width", v, 40, 200))
    IN  r3

validate_response(response) ==
    LET r1 == IfInGet(Start, "temperature", response,
                   LAMBDA r, v : validate_float_range(r, "response.temperature", v, 0, 20))
        r2 == IfInGet(r1, "max_tokens", response,
                   LAMBDA r, v : validate_integer_range(r, "response.max_tokens", v, 1, 100000))
        r3 == IfInGet(r2, "format", response,
                   LAMBDA r, v : NotInSet(r, ERROR, "response.format", v, valid_formats,
                                          "Invalid format", NoArg))
    IN  r3

validate_network(network) ==
    LET r1 == IfInGet(Start, "proxy_url", network,
                   LAMBDA r, v : CASE is_valid_url(v) = "E" -> Raise(r, "AttributeError")
                                   [] is_valid_url(v) = "F" ->
                                          add_error(r, "network.proxy_url", "Invalid proxy URL", NoArg)
                                   [] OTHER -> r)
        r2 == IfInGet(r1, "timeout_connect", network,
                   LAMBDA r, v : validate_integer_range(r, "network.timeout_connect", v, 1, 60))
        r3 == IfInGet(r2, "timeout_read", network,
                   LAMBDA r, v : validate_integer_range(r, "network.timeout_read", v, 1, 300))
    IN  r3

validate_security(security) ==
    BoolFields(Start, "security",
               <<"mask_api_key", "audit_tools", "validate_ssl", "sanitize_logs">>, security)

validate_debug(debug) ==
    LET r1 == BoolFields(Start, "debug",
                         <<"show_raw_api_calls", "save_recordings", "verbose_errors">>, debug)
        r2 == IfInGet(r1, "mock_delay_ms", debug,
                   LAMBDA r, v : validate_integer_range(r, "debug.mock_delay_ms", v, 0, 5000))
    IN  r2

\* one step for each (key, value) of sec.items(), in insertion order;
\* AttributeError when sec is no dict
ForItems(sec, Body(_, _, _)) ==
    LET RECURSIVE Walk(_, _)
        Walk(r, keys) ==
            IF keys = <<>> \/ r.exc # "" THEN r
            ELSE Walk(Body(r, Head(keys), sec.m[Head(keys)]), Tail(keys))
    IN  IF sec.t # "map" THEN Raise(Start, "AttributeError") ELSE Walk(Start, sec.o)

validate_aliases(aliases) ==
    ForItems(aliases,
             LAMBDA r, alias, command :
                 IF command.t # "str"
                 THEN add_error(r, "aliases." \o alias, "Alias target must be a string", NoArg)
                 ELSE r)

validate_models(models) ==
    ForItems(models,
             LAMBDA r0, model_name, cfg :
                 LET r1 == IfInGet(r0, "temperature", cfg,
                                LAMBDA r, v : validate_float_range(
                                    r, "models." \o model_name \o ".temperature", v, 0, 20))
                     r2 == IfInGet(r1, "max_tokens", cfg,
                                LAMBDA r, v : validate_integer_range(
                                    r, "models." \o model_name \o ".max_tokens", v, 1, 100000))
                 IN  r2)

validate_prompts(prompts) ==
    ForItems(prompts,
             LAMBDA r, name, prompt :
                 IF prompt.t # "str"
                 THEN add_error(r, "prompts." \o name, "Prompt must be a string", NoArg)
                 ELSE r)

validate_features(features) ==
    ForItems(features,
             LAMBDA r, feature, enabled : validate_boolean(r, "features." \o feature, enabled))

\* config.setdefault(section, {}): a missing section is stored in the document
dict_setdefault(conf, section) ==
    IF section \in DOMAIN conf.m THEN conf ELSE Put(conf, section, EmptyMap)

\* the document after config.get(section, {}): get stores no default
dict_get(conf, section) == conf

\* config.get(section, {}).get(key, default); ok is FALSE when the section's
\* value is no dict (AttributeError: it has no attribute get)
GetGet(conf, section, key, default) ==
    LET sec == IF section \in DOMAIN conf.m THEN conf.m[section] ELSE EmptyMap
    IN  IF sec.t # "map" THEN [ok |-> FALSE, v |-> default]
        ELSE [ok |-> TRUE, v |-> IF key \in DOMAIN sec.m THEN sec.m[key] ELSE default]

\* the rule that asks for flag to be the boolean true and for the key needed to
\* be absent, whatever its value
CrossRule_key_presence(r, conf, section, flag, needed, message) ==
    IF r.exc # "" THEN r
    ELSE LET sec == IF section \in DOMAIN conf.m THEN conf.m[section] ELSE EmptyMap
         IN  IF sec.t # "map" THEN Raise(r, "AttributeError")
             ELSE IF /\ flag \in DOMAIN sec.m
                     /\ sec.m[flag] = VBool(TRUE)
                     /\ needed \notin DOMAIN sec.m
                  THEN add_warning(r, section, message, NoArg)
                  ELSE r

\* one rule of cross_validate: if section.flag is truthy and section.needed is
\* not, warn at the section
CrossRule(r, conf, section, flag, needed, message) ==
    IF r.exc # "" THEN r
    ELSE LET g1 == GetGet(conf, section, flag, VBool(FALSE))
             \* .get(needed) defaults to None, which is falsy
             g2 == GetGet(conf, section, needed, VBool(FALSE))
         IN  IF ~g1.ok THEN Raise(r, "AttributeError")
             ELSE IF Truthy(g1.v) /\ ~Truthy(g2.v)
                  THEN add_warning(r, section, message, NoArg)
                  ELSE r

cross_validate(conf) ==
    LET r1 == CrossRule(Start, conf, "logging", "log_requests", "file",
                        "log_requests is true but no log file specified")
        r2 == CrossRule(r1, conf, "session", "auto_save", "default_dir",
                        "auto_save is true but no default_dir specified")
    IN  r2

valid_tables ==
    {"api", "repl", "logging", "tools", "session", "ui",
     "response", "network", "security", "debug", "aliases",
     "models", "prompts", "features"}

\* validate_structure that reports an unknown table as an error
validate_structure_error(conf) ==
    LET RECURSIVE Walk(_, _)
        Walk(r, keys) ==
            IF keys = <<>> THEN r
            ELSE Walk(IF Head(keys) \notin valid_tables
                      THEN add_error(r, "", "Unknown top-level table", KeyArg(Head(keys)))
                      ELSE r,
                      Tail(keys))
    IN  Walk(Start, conf.o)

validate_structure(conf) ==
    LET RECURSIVE Walk(_, _)
        Walk(r, keys) ==
            IF keys = <<>> THEN r
            ELSE Walk(IF Head(keys) \notin valid_tables
                      THEN add_warning(r, "", "Unknown top-level table", KeyArg(Head(keys)))
                      ELSE r,
                      Tail(keys))
    IN  Walk(Start, conf.o)

(***************************************************************************)
(* The documents the checks run on: every recognized field alone with a    *)
(* value of each type and with the values around its bounds, every section *)
(* with up to MaxFields fields, every section holding a value that is no   *)
(* table, and documents of up to MaxKeys top-level keys.                   *)
(***************************************************************************)
\* what config_path leads to: no file, a file that is not TOML, a file that
\* cannot be read, or a file that parses to doc
Source(kind, doc) == [kind |-> kind, doc |-> doc]

\* fields of one generated section table
MaxFields == 2

\* one value of each type a TOML document can hold
TypeVals ==
    {VStr(<<"t", "r", "u", "e">>), VStr(<<>>), VInt(0), VInt(1), VFloat(15), VBool(TRUE), VBool(FALSE),
     VSeq(<<>>), VSeq(<<VBool(TRUE)>>), EmptyMap, Map1("comment", VBool(TRUE))}

IntsAround(lo, hi) == {VInt(lo - 1), VInt(lo), VInt(hi), VInt(hi + 1)}

CommandVals ==
    {VStr(<<"l", "s">>), VStr(<<"r", "m", " ", "-", "r", "f", " ", "/", "t", "m", "p", "/", "x">>), VStr(<<"e", "c", "h", "o", " ", "h", "i", " ", ">", ">", " ", "f">>), VStr(<<"f", "o", "r", "m", "a", "t", " ", "c">>), VInt(7)}

ExtensionVals == {VStr(<<".", "p", "y">>), VStr(<<"p", "y">>), VInt(7)}

\* the arrays of at most n elements of vals
RECURSIVE Arrays(_, _)
Arrays(vals, n) ==
    IF n = 0 THEN {VSeq(<<>>)}
    ELSE Arrays(vals, n - 1)
         \cup {VSeq(Append(a.q, v)) : a \in {b \in Arrays(vals, n - 1) : Len(b.q) = n - 1},
                                      v \in vals}

CommandsTables ==
    {Map1("timeout", v) : v \in IntsAround(1, 300)}
    \cup {Map1("allowed_commands", a) : a \in Arrays(CommandVals, MaxElems) \cup {VStr(<<"r", "m">>)}}
    \cup {Map2("timeout", VInt(301), "allowed_commands", VSeq(<<VStr(<<"r", "m", " ", "-", "r", "f", " ", "/", "t", "m", "p", "/", "x">>)>>))}

ModelTables ==
    {Map1("temperature", v) : v \in {VFloat(-1), VFloat(0), VFloat(20), VFloat(21), VInt(2)}}
    \cup {Map1("max_tokens", v) : v \in IntsAround(1, 100000)}
    \cup {Map2("temperature", VFloat(21), "max_tokens", VInt(0))}

\* the recognized fields of a section with fixed fields, in the order of the
\* TOML file, and one field the routine does not know
Fields(s) ==
    CASE s = "api" -> <<"api_key", "model", "base_url", "timeout", "max_retries",
                        "retry_delay", "comment">>
      [] s = "repl" -> <<"history_size", "auto_save_interval", "colored_prompt",
                         "welcome_banner", "vi_mode", "multiline_mode", "comment">>
      [] s = "logging" -> <<"level", "format", "max_file_size", "max_files",
                            "log_requests", "file", "comment">>
      [] s = "tools" -> <<"max_file_size", "allowed_extensions", "commands", "comment">>
      [] s = "session" -> <<"max_context_size", "prune_strategy", "auto_save",
                            "default_dir", "comment">>
      [] s = "ui" -> <<"theme", "spinner_style", "max_width", "comment">>
      [] s = "response" -> <<"temperature", "max_tokens", "format", "comment">>
      [] s = "network" -> <<"proxy_url", "timeout_connect", "timeout_read", "comment">>
      [] s = "security" -> <<"mask_api_key", "audit_tools", "validate_ssl",
                             "sanitize_logs", "comment">>
      [] s = "debug" -> <<"show_raw_api_calls", "save_recordings", "verbose_errors",
                           "mock_delay_ms", "comment">>
      \* the user-defined names of the sections with dynamic keys
      [] s = "aliases" -> <<"ll", "rm">>
      [] s = "models" -> <<"fast", "beta">>
      [] s = "prompts" -> <<"sys", "ll">>
      [] s = "features" -> <<"beta", "fast">>

BoolVals == {VBool(TRUE), VBool(FALSE), VInt(1), VStr(<<"t", "r", "u", "e">>)}

UrlVals == {VStr(<<"h", "t", "t", "p", ":", "/", "/", "h">>), VStr(<<"h", "t", "t", "p", "s", ":", "/", "/", "h">>), VStr(<<"f", "t", "p", ":", "/", "/", "h">>), VInt(80)}

SizeVals == {VStr(<<"1", "0", "M", "B">>), VStr(<<"1", ".", "5", " ", "g", "b">>), VStr(<<"1", "0", "X", "B">>), VStr(<<"M", "B">>), VInt(10)}

\* the values a field is tried with beside TypeVals
Vals(s, f) ==
    CASE f = "comment" -> {VStr(<<"x">>)}
      [] s \in {"aliases", "prompts"} -> {VStr(<<"l", "s", " ", "-", "l">>), VInt(1)}
      [] s = "features" -> BoolVals
      [] s = "models" -> ModelTables \cup {VInt(1), VStr(<<"t", "e", "m", "p", "e", "r", "a", "t", "u", "r", "e">>)}
      [] f = "api_key" -> {VStr(<<"k">>)}
      [] f = "model" -> {VStr(<<"g", "e", "m", "i", "n", "i", "-", "1", ".", "5", "-", "f", "l", "a", "s", "h">>), VStr(<<"g", "e", "m", "i", "n", "i", "-", "p", "r", "o">>), VStr(<<"b", "o", "g", "u", "s", "-", "m", "o", "d", "e", "l">>)}
      [] f \in {"base_url", "proxy_url"} -> UrlVals
      [] f \in {"timeout", "timeout_read"} -> IntsAround(1, 300) \cup {VInt(30), VInt(500)}
      [] f = "max_retries" -> IntsAround(0, 10)
      [] f = "retry_delay" -> {VFloat(0), VFloat(1), VFloat(600), VFloat(601), VInt(60), VInt(61)}
      [] f = "history_size" -> IntsAround(0, 100000)
      [] f = "auto_save_interval" -> IntsAround(0, 3600)
      [] f = "level" -> {VStr(<<"i", "n", "f", "o">>), VStr(<<"l", "o", "u", "d">>)}
      [] s = "logging" /\ f = "format" -> {VStr(<<"j", "s", "o", "n">>), VStr(<<"x", "m", "l">>)}
      [] f = "max_file_size" -> SizeVals
      [] f = "max_files" -> IntsAround(1, 100)
      [] f \in {"log_requests", "auto_save"} -> BoolVals
      [] f \in {"file", "default_dir"} -> {VStr(<<"o", "u", "t">>), VStr(<<>>)}
      [] f = "allowed_extensions" -> Arrays(ExtensionVals, MaxElems) \cup {VStr(<<".", "p", "y">>)}
      [] f = "commands" -> CommandsTables \cup {VStr(<<"t", "i", "m", "e", "o", "u", "t">>)}
      [] f = "max_context_size" -> IntsAround(1000, 1000000)
      [] f = "prune_strategy" -> {VStr(<<"s", "m", "a", "r", "t">>), VStr(<<"r", "a", "n", "d", "o", "m">>)}
      [] f = "theme" -> {VStr(<<"d", "r", "a", "c", "u", "l", "a">>), VStr(<<"n", "e", "o", "n">>)}
      [] f = "spinner_style" -> {VStr(<<"d", "o", "t", "s">>), VStr(<<"w", "h", "e", "e", "l">>)}
      [] f = "max_width" -> IntsAround(40, 200)
      [] f = "temperature" -> {VFloat(-1), VFloat(0), VFloat(20), VFloat(21), VInt(2), VInt(3)}
      [] f = "max_tokens" -> IntsAround(1, 100000)
      [] s = "response" /\ f = "format" -> {VStr(<<"j", "s", "o", "n">>), VStr(<<"x", "m", "l">>)}
      [] f = "timeout_connect" -> IntsAround(1, 60)
      [] f = "mock_delay_ms" -> IntsAround(0, 5000)
      [] OTHER -> BoolVals

\* the values of field f in a generated table: with a value of every type when
\* the field stands alone
FieldVals(s, f, alone) == IF alone THEN TypeVals \cup Vals(s, f) ELSE Vals(s, f)

\* a field left out of a generated table
None == [t |-> "none"]

\* the tables with at most n of the fields, inserted in the order of fields
RECURSIVE Tables(_, _, _, _)
Tables(s, fields, n, alone) ==
    IF Len(fields) = 0 THEN {EmptyMap}
    ELSE LET front == SubSeq(fields, 1, Len(fields) - 1)
             last == fields[Len(fields)]
         IN  {IF x[2] = None THEN x[1] ELSE Put(x[1], last, x[2]) :
                  x \in {y \in Tables(s, front, n, alone)
                                 \X ({None} \cup FieldVals(s, last, alone)) :
                             y[2] = None \/ Len(y[1].o) < n}}

Sections ==
    <<"api", "repl", "logging", "tools", "session", "ui", "response", "network",
      "security", "debug", "aliases", "models", "prompts", "features">>

\* what one section can hold: a field alone with every value, up to MaxFields
\* fields with the values of Vals, or something that is no table
SectionVals(s) ==
    TypeVals \cup {VStr(Chars(Fields(s)[1]))}
    \cup Tables(s, Fields(s), 1, TRUE)
    \cup Tables(s, Fields(s), MaxFields, FALSE)

\* sections for the documents of several top-level keys, and two keys that
\* are no section
Samples ==
    {<<"plugins", EmptyMap>>, <<"extra", VInt(1)>>,
     <<"api", Map2("model", VStr(<<"b", "o", "g", "u", "s", "-", "m", "o", "d", "e", "l">>), "timeout", VInt(500))>>,
     <<"api", Map2("model", VStr(<<"g", "e", "m", "i", "n", "i", "-", "1", ".", "5", "-", "f", "l", "a", "s", "h">>), "timeout", VInt(30))>>,
     <<"api", Map1("api_key", VStr(<<"k">>))>>,
     <<"api", Map1("base_url", VInt(80))>>,
     <<"api", VInt(5)>>,
     <<"repl", Map1("vi_mode", VStr(<<"t", "r", "u", "e">>))>>,
     <<"logging", Map1("log_requests", VBool(TRUE))>>,
     <<"logging", Map2("log_requests", VBool(TRUE), "file", VStr(<<"o", "u", "t">>))>>,
     <<"logging", Map2("log_requests", VBool(TRUE), "file", VStr(<<>>))>>,
     <<"logging", Map1("log_requests", VStr(<<"f", "a", "l", "s", "e">>))>>,
     <<"logging", VStr(<<"x">>)>>,
     <<"tools", Map1("commands",
                     Map1("allowed_commands", VSeq(<<VStr(<<"r", "m", " ", "-", "r", "f", " ", "/", "t", "m", "p", "/", "x">>), VStr(<<"l", "s">>)>>)))>>,
     <<"session", Map1("auto_save", VBool(TRUE))>>,
     <<"session", Map2("auto_save", VBool(TRUE), "default_dir", VStr(<<"o", "u", "t">>))>>,
     <<"session", VSeq(<<>>)>>,
     <<"ui", Map1("theme", VStr(<<"n", "e", "o", "n">>))>>,
     <<"network", Map1("timeout_connect", VInt(61))>>,
     <<"models", Map1("fast", VInt(1))>>,
     <<"features", Map1("beta", VInt(1))>>}

\* the documents of exactly n top-level keys taken from Samples, in every
\* order of the keys
RECURSIVE Combined(_)
Combined(n) ==
    IF n = 0 THEN {EmptyMap}
    ELSE {Put(d, kv[1], kv[2]) :
              <<d, kv>> \in {x \in Combined(n - 1) \X Samples : x[2][1] \notin DOMAIN x[1].m}}

\* the documents of at most n top-level keys taken from Samples
RECURSIVE CombinedUpTo(_)
CombinedUpTo(n) == IF n = 0 THEN Combined(0) ELSE CombinedUpTo(n - 1) \cup Combined(n)

\* the documents come in families: family 0 is the documents of several
\* top-level keys, family j the documents whose one key is section j
Families == 0..Len(Sections)

Docs(j) ==
    IF j = 0 THEN CombinedUpTo(MaxKeys)
    ELSE {Map1(Sections[j], w) : w \in SectionVals(Sections[j])}

Unparsed == {Source("missing", EmptyMap), Source("bad_toml", EmptyMap),
             Source("unreadable", EmptyMap)}

\* the sources of the sequential specification
AllSources(j) ==
    IF j = 0 THEN Unparsed \cup {Source("ok", d) : d \in Docs(0)}
    ELSE {Source("ok", d) : d \in Docs(j)}

\* the sources two concurrent callers draw from
FewSources ==
    {Source("missing", EmptyMap),
     Source("ok", EmptyMap),
     Source("ok", Map1("api", Map1("timeout", VInt(500)))),
     Source("ok", Map1("ui", Map1("theme", VStr(<<"n", "e", "o", "n">>)))),
     Source("ok", Map1("logging", Map1("log_requests", VBool(TRUE)))),
     Source("ok", Map1("api", VInt(5)))}

Sources(m, j) == IF m \in {"main", "cli"} THEN AllSources(j) ELSE FewSources

(***************************************************************************)
(* The validator as a state machine.  A thread calls validate_file on a    *)
(* validator; self.issues is a reference into the heap of list objects, so *)
(* that two callers of one validator share it as they do in Python.        *)
(***************************************************************************)
Threads == {1, 2}
Validators == {1, 2}

NoResult == [ok |-> FALSE, ref |-> 0]

\* the run has not ended
NoExit == -1

\* what a caller holds of a call that returned: the list object, and the
\* issues that were on it when the call returned
Held(ref, list) == [ref |-> ref, iss |-> list]

\* self.issues of the validator thread t calls
Ref(t) == issues[self[t]]

\* the issues of r put in front of the list instead of at its end
Prepended(t, r) == [heap EXCEPT ![Ref(t)] = r.iss \o @]

\* self.issues.append(...) for every issue of r, on the list self.issues
\* refers to now
Appended(t, r) == [heap EXCEPT ![Ref(t)] = @ \o r.iss]

\* self.issues.clear() in the place of line 68: the list object is kept and
\* emptied
Begin_clearing(t) ==
    /\ pc[t] \in (IF mode \in {"cli", "runs"} THEN {"idle", "exited"}
                  ELSE {"idle", "done", "raised"})
    /\ budget[t] > 0
    /\ \E j \in Families : \E src \in Sources(mode, j) :
           source' = [source EXCEPT ![t] = src]
    /\ heap' = [heap EXCEPT ![Ref(t)] = <<>>]
    /\ pc' = [pc EXCEPT ![t] = "exists"]
    /\ config' = [config EXCEPT ![t] = EmptyMap]
    /\ routines' = [routines EXCEPT ![t] = {}]
    /\ result' = [result EXCEPT ![t] = NoResult]
    /\ exc' = [exc EXCEPT ![t] = ""]
    /\ budget' = [budget EXCEPT ![t] = @ - 1]
    /\ UNCHANGED <<mode, self, issues, exit, schema, returned>>

\* validate_file, line 68: self.issues = []
Begin(t) ==
    /\ pc[t] \in (IF mode \in {"cli", "runs"} THEN {"idle", "exited"}
                  ELSE {"idle", "done", "raised"})
    /\ budget[t] > 0
    /\ \E j \in Families : \E src \in Sources(mode, j) :
           source' = [source EXCEPT ![t] = src]
    /\ heap' = Append(heap, <<>>)
    /\ issues' = [issues EXCEPT ![self[t]] = Len(heap) + 1]
    /\ pc' = [pc EXCEPT ![t] = "exists"]
    /\ config' = [config EXCEPT ![t] = EmptyMap]
    /\ routines' = [routines EXCEPT ![t] = {}]
    /\ result' = [result EXCEPT ![t] = NoResult]
    /\ exc' = [exc EXCEPT ![t] = ""]
    /\ budget' = [budget EXCEPT ![t] = @ - 1]
    /\ UNCHANGED <<mode, self, exit, schema, returned>>

\* the early return without its add_error
ReturnFalse_without_issue(t, message) ==
    /\ result' = [result EXCEPT ![t] = [ok |-> FALSE, ref |-> Ref(t)]]
    /\ returned' = Append(returned, Held(Ref(t), heap[Ref(t)]))
    /\ pc' = [pc EXCEPT ![t] = "done"]
    /\ UNCHANGED <<mode, self, issues, heap, source, config, routines, exc, budget,
                   exit, schema>>

\* add_error("", message) and return False, self.issues
ReturnFalse(t, message) ==
    /\ heap' = Appended(t, add_error(Start, "", message, NoArg))
    /\ result' = [result EXCEPT ![t] = [ok |-> FALSE, ref |-> Ref(t)]]
    /\ returned' = Append(returned, Held(Ref(t), heap'[Ref(t)]))
    /\ pc' = [pc EXCEPT ![t] = "done"]
    /\ UNCHANGED <<mode, self, issues, source, config, routines, exc, budget, exit, schema>>

\* validate_file, lines 70-73: check file exists
CheckExists(t) ==
    /\ pc[t] = "exists"
    /\ IF source[t].kind = "missing"
       THEN ReturnFalse(t, "Configuration file not found")
       ELSE /\ pc' = [pc EXCEPT ![t] = "parse"]
            /\ UNCHANGED <<mode, self, issues, heap, source, config, routines, result,
                           exc, budget, exit, schema, returned>>

\* validate_file, lines 75-84: parse TOML
ParseToml(t) ==
    /\ pc[t] = "parse"
    /\ CASE source[t].kind = "bad_toml" -> ReturnFalse(t, "Invalid TOML syntax")
         [] source[t].kind = "unreadable" -> ReturnFalse(t, "Error reading file")
         [] OTHER ->
              /\ config' = [config EXCEPT ![t] = source[t].doc]
              /\ pc' = [pc EXCEPT ![t] = "structure"]
              /\ UNCHANGED <<mode, self, issues, heap, source, routines, result, exc, budget,
                             exit, schema, returned>>

\* fail-fast: an ERROR of one routine ends the validation
Ran_fail_fast(t, r, next) ==
    /\ heap' = Appended(t, r)
    /\ pc' = [pc EXCEPT ![t] = IF r.exc # "" THEN "raised"
                               ELSE IF \E i \in 1..Len(r.iss) : r.iss[i].level = ERROR
                                    THEN "return" ELSE next]
    /\ exc' = [exc EXCEPT ![t] = r.exc]

\* a routine ran to r: its issues are on the list; an exception leaves
\* validate_file, which catches none after the parse
Ran(t, r, next) ==
    /\ heap' = Appended(t, r)
    /\ pc' = [pc EXCEPT ![t] = IF r.exc # "" THEN "raised" ELSE next]
    /\ exc' = [exc EXCEPT ![t] = r.exc]

\* validate_file, lines 86-87: validate structure
Structure(t) ==
    /\ pc[t] = "structure"
    /\ Ran(t, validate_structure(config[t]), "api")
    /\ UNCHANGED <<mode, self, issues, source, config, routines, result, budget,
                   exit, schema, returned>>

\* validate_file, lines 90-117: if key in config: self.validate_<key>(config[key])
Dispatch(t, key, Routine(_), next) ==
    /\ pc[t] = key
    /\ IF key \in DOMAIN config[t].m
       THEN /\ Ran(t, Routine(config[t].m[key]), next)
            /\ routines' = [routines EXCEPT ![t] = @ \cup {key}]
       ELSE /\ pc' = [pc EXCEPT ![t] = next]
            /\ UNCHANGED <<heap, exc, routines>>
    /\ UNCHANGED <<mode, self, issues, source, config, result, budget, exit, schema, returned>>

Api(t) == Dispatch(t, "api", validate_api, "repl")
Repl(t) == Dispatch(t, "repl", validate_repl, "logging")
Logging(t) == Dispatch(t, "logging", validate_logging, "tools")
Tools(t) == Dispatch(t, "tools", validate_tools, "session")
Session(t) == Dispatch(t, "session", validate_session, "ui")
Ui(t) == Dispatch(t, "ui", validate_ui, "response")
Response(t) == Dispatch(t, "response", validate_response, "network")
Network(t) == Dispatch(t, "network", validate_network, "security")
Security(t) == Dispatch(t, "security", validate_security, "debug")
Debug(t) == Dispatch(t, "debug", validate_debug, "aliases")
Aliases(t) == Dispatch(t, "aliases", validate_aliases, "models")
Models(t) == Dispatch(t, "models", validate_models, "prompts")
Prompts(t) == Dispatch(t, "prompts", validate_prompts, "features")
Features(t) == Dispatch(t, "features", validate_features, "cross")

\* validate_file, lines 119-120: cross-validation
CrossValidate(t) ==
    /\ pc[t] = "cross"
    /\ Ran(t, cross_validate(config[t]), "return")
    /\ config' = [config EXCEPT ![t] = dict_get(dict_get(@, "logging"), "session")]
    /\ UNCHANGED <<mode, self, issues, source, routines, result, budget,
                   exit, schema, returned>>

\* any issue at all counts as an error
has_errors_any_issue(list) == Len(list) > 0

\* any(issue.level == ValidationLevel.ERROR for issue in self.issues)
has_errors(list) == \E i \in 1..Len(list) : list[i].level = ERROR

\* validate_file, lines 122-124: return not has_errors, self.issues
Return(t) ==
    /\ pc[t] = "return"
    /\ result' = [result EXCEPT ![t] = [ok |-> ~has_errors(heap[Ref(t)]), ref |-> Ref(t)]]
    /\ returned' = Append(returned, Held(Ref(t), heap[Ref(t)]))
    /\ pc' = [pc EXCEPT ![t] = "done"]
    /\ UNCHANGED <<mode, self, issues, heap, source, config, routines, exc, budget,
                   exit, schema>>

Step(t) ==
    \/ Begin(t)
    \/ CheckExists(t)
    \/ ParseToml(t)
    \/ Structure(t)
    \/ Api(t)
    \/ Repl(t)
    \/ Logging(t)
    \/ Tools(t)
    \/ Session(t)
    \/ Ui(t)
    \/ Response(t)
    \/ Network(t)
    \/ Security(t)
    \/ Debug(t)
    \/ Aliases(t)
    \/ Models(t)
    \/ Prompts(t)
    \/ Features(t)
    \/ CrossValidate(t)
    \/ Return(t)

Next == \E t \in Threads : Step(t)

\* the orders in which the elements of a set can be listed
ListsOf(S) ==
    {f \in [1..Cardinality(S) -> S] : \A i, j \in 1..Cardinality(S) : f[i] = f[j] => i = j}

\* main, lines 401-413: the schema; list(VALID_MODELS) lists a set of str in
\* the order of the hashes of this run of the interpreter
Schema(order) ==
    [properties |->
         [api |-> [properties |->
                       [model |-> [type |-> "string", enum |-> order],
                        timeout |-> [type |-> "integer", minimum |-> 1, maximum |-> 300]]]]]

\* main, lines 399-416: --generate-schema prints the schema and returns None,
\* so that sys.exit ends the run with status 0
GenerateSchema(t) ==
    /\ pc[t] \in {"idle", "exited"}
    /\ budget[t] > 0
    /\ \E order \in ListsOf(VALID_MODELS) : schema' = Append(schema, Schema(order))
    /\ exit' = [exit EXCEPT ![t] = 0]
    /\ pc' = [pc EXCEPT ![t] = "exited"]
    /\ budget' = [budget EXCEPT ![t] = @ - 1]
    /\ UNCHANGED <<mode, self, issues, heap, source, config, routines, result, exc, returned>>

\* main, lines 427-450: 0 when there is no issue, else 1 if errors else 0
exit_code(list) ==
    IF Len(list) = 0 THEN 0
    ELSE IF \E i \in 1..Len(list) : list[i].level = ERROR THEN 1 ELSE 0

\* main, lines 425-450, and sys.exit(main()): the status of the run; an
\* exception that leaves validate_file leaves main too, and the interpreter
\* ends with status 1
Exit(t) ==
    /\ pc[t] \in {"done", "raised"}
    /\ exit' = [exit EXCEPT ![t] = IF pc[t] = "raised" THEN 1
                                   ELSE exit_code(heap[result[t].ref])]
    /\ pc' = [pc EXCEPT ![t] = "exited"]
    /\ UNCHANGED <<mode, self, issues, heap, source, config, routines, result, exc, budget,
                   schema, returned>>

\* runs of the command-line wrapper
NextCli == \E t \in Threads : Step(t) \/ GenerateSchema(t) \/ Exit(t)

\* ConfigValidator(): __init__ gives each validator its own empty list
Constructed ==
    /\ issues = [v \in Validators |-> v]
    /\ heap = [v \in Validators |-> <<>>]
    /\ pc = [t \in Threads |-> "idle"]
    /\ source = [t \in Threads |-> Source("none", EmptyMap)]
    /\ config = [t \in Threads |-> EmptyMap]
    /\ routines = [t \in Threads |-> {}]
    \* the call of a thread has returned nothing yet
    /\ result = [t \in Threads |-> NoResult]
    /\ exc = [t \in Threads |-> ""]
    /\ exit = [t \in Threads |-> NoExit]
    /\ schema = <<>>
    /\ returned = <<>>

\* main: one validator, one call of validate_file
Init ==
    /\ mode = "main"
    /\ self = [t \in Threads |-> 1]
    /\ budget = [t \in Threads |-> IF t = 1 THEN 1 ELSE 0]
    /\ Constructed

Spec == Init /\ [][Next]_vars

\* two threads, each calling validate_file once, on one validator or on two
InitConcurrent ==
    /\ mode = "concurrent"
    /\ self \in {[t \in Threads |-> 1], [t \in Threads |-> t]}
    /\ budget = [t \in Threads |-> 1]
    /\ Constructed

SpecConcurrent == InitConcurrent /\ [][Next]_vars

\* one run of the command-line wrapper, on any source
InitCli ==
    /\ mode = "cli"
    /\ self = [t \in Threads |-> t]
    /\ budget = [t \in Threads |-> IF t = 1 THEN 1 ELSE 0]
    /\ Constructed

SpecCli == InitCli /\ [][NextCli]_vars

\* MaxRuns runs of the command-line wrapper, one after the other
InitRuns ==
    /\ mode = "runs"
    /\ self = [t \in Threads |-> t]
    /\ budget = [t \in Threads |-> IF t = 1 THEN MaxRuns ELSE 0]
    /\ Constructed

SpecRuns == InitRuns /\ [][NextCli]_vars

\* MaxCalls calls of validate_file on one validator, one after the other
InitReuse ==
    /\ mode = "reuse"
    /\ self = [t \in Threads |-> 1]
    /\ budget = [t \in Threads |-> IF t = 1 THEN MaxCalls ELSE 0]
    /\ Constructed

SpecReuse == InitReuse /\ [][Next]_vars

(***************************************************************************)
(* validate_file as one function of its source: what a call that runs      *)
(* alone returns.                                                          *)
(***************************************************************************)
\* r, then the routine that gives next, unless r raised
Then(r, next) ==
    IF r.exc # "" THEN r ELSE [iss |-> r.iss \o next.iss, exc |-> next.exc]

\* if key in config: self.validate_<key>(config[key])
IfSection(conf, key, Routine(_)) ==
    IF key \in DOMAIN conf.m THEN Routine(conf.m[key]) ELSE Start

\* lines 86-120 on a parsed document: the issues appended and the exception
\* raised, if any
validate_document(conf) ==
    LET r0 == validate_structure(conf)
        r1 == Then(r0, IfSection(conf, "api", validate_api))
        r2 == Then(r1, IfSection(conf, "repl", validate_repl))
        r3 == Then(r2, IfSection(conf, "logging", validate_logging))
        r4 == Then(r3, IfSection(conf, "tools", validate_tools))
        r5 == Then(r4, IfSection(conf, "session", validate_session))
        r6 == Then(r5, IfSection(conf, "ui", validate_ui))
        r7 == Then(r6, IfSection(conf, "response", validate_response))
        r8 == Then(r7, IfSection(conf, "network", validate_network))
        r9 == Then(r8, IfSection(conf, "security", validate_security))
        r10 == Then(r9, IfSection(conf, "debug", validate_debug))
        r11 == Then(r10, IfSection(conf, "aliases", validate_aliases))
        r12 == Then(r11, IfSection(conf, "models", validate_models))
        r13 == Then(r12, IfSection(conf, "prompts", validate_prompts))
        r14 == Then(r13, IfSection(conf, "features", validate_features))
    IN  Then(r14, cross_validate(conf))

\* the outcome of validate_file(src) run alone: the exception it raises, or
\* the (ok, issues) it returns
Alone(src) ==
    CASE src.kind = "missing" ->
             [exc |-> "", ok |-> FALSE,
              iss |-> add_error(Start, "", "Configuration file not found", NoArg).iss]
      [] src.kind = "bad_toml" ->
             [exc |-> "", ok |-> FALSE,
              iss |-> add_error(Start, "", "Invalid TOML syntax", NoArg).iss]
      [] src.kind = "unreadable" ->
             [exc |-> "", ok |-> FALSE,
              iss |-> add_error(Start, "", "Error reading file", NoArg).iss]
      [] OTHER ->
             LET r == validate_document(src.doc)
             IN  [exc |-> r.exc, ok |-> r.exc = "" /\ ~has_errors(r.iss), iss |-> r.iss]

(***************************************************************************)
(* Properties.                                                             *)
(***************************************************************************)
\* validate_file returned to thread t
Done(t) == pc[t] = "done"

\* the issue list validate_file returned to thread t, as it is now
Returned(t) == heap[result[t].ref]

\* the places of list whose issue satisfies P
Where(list, P(_)) == {i \in 1..Len(list) : P(list[i])}

Errors(list) == Where(list, LAMBDA x : x.level = ERROR)

\* the document without its top-level key k
Without(conf, k) ==
    [t |-> "map",
     o |-> SelectSeq(conf.o, LAMBDA x : x # k),
     m |-> [x \in DOMAIN conf.m \ {k} |-> conf.m[x]]]

\* C1: whatever validate_file returns (file missing, parse failure, or full
\* validation), ok is true exactly when the returned issue list holds no issue
\* of severity ERROR; WARNING and INFO issues do not change ok.
C1_OkIffNoError ==
    \A t \in Threads :
        Done(t) => (result[t].ok <=> Errors(Returned(t)) = {})

\* a call returned ok = true with a WARNING in its list
C1_Witness ==
    \E t \in Threads :
        /\ Done(t)
        /\ result[t].ok
        /\ Where(Returned(t), LAMBDA x : x.level = WARNING) # {}

\* C2 as claimed: for every top-level key k that is no recognized section the
\* result holds exactly one WARNING whose path is k, no ERROR at k, and no
\* section routine ran for k.
C2_WarningPathIsKey ==
    \A t \in Threads :
        Done(t) /\ source[t].kind = "ok" =>
            \A k \in DOMAIN config[t].m \ valid_tables :
                /\ Cardinality(Where(Returned(t),
                                     LAMBDA x : x.level = WARNING /\ x.path = k)) = 1
                /\ Where(Returned(t), LAMBDA x : x.level = ERROR /\ x.path = k) = {}
                /\ k \notin routines[t]

\* C2, amended: for every top-level key k that is no recognized section the
\* result holds exactly one issue naming k, a WARNING "Unknown top-level
\* table" whose path is empty (the key is in the message); k adds no ERROR
\* (the result has as many ERRORs as that of the document without k), and
\* no section routine ran for k.
C2_UnknownKeyWarnedAtEmptyPath ==
    \A t \in Threads :
        Done(t) /\ source[t].kind = "ok" =>
            \A k \in DOMAIN config[t].m \ valid_tables :
                LET named == Where(Returned(t), LAMBDA x : x.arg = KeyArg(k))
                IN  /\ Cardinality(named) = 1
                    /\ \A i \in named :
                           /\ Returned(t)[i].level = WARNING
                           /\ Returned(t)[i].path = ""
                           /\ Returned(t)[i].message = "Unknown top-level table"
                    /\ Where(Returned(t), LAMBDA x : x.path = k) = {}
                    /\ Cardinality(Errors(Returned(t)))
                           = Cardinality(Errors(validate_document(Without(config[t], k)).iss))
                    /\ k \notin routines[t]

\* a call returned for a document of two unknown top-level keys, with the
\* two warnings
C2_Witness ==
    \E t \in Threads :
        /\ Done(t)
        /\ {"plugins", "extra"} \subseteq DOMAIN config[t].m
        /\ Len(Returned(t)) = 2

\* C3 as claimed: validation never raises an exception, whatever the shape of
\* a value in the parsed document.
C3_NeverRaises == \A t \in Threads : pc[t] # "raised"

\* C4: when the source is missing, unreadable or unparsable, validate_file
\* returns ok = false with exactly one issue, an ERROR with empty path, and
\* no structural scan, section routine or cross-validation has run.
C4_ShortCircuit ==
    \A t \in Threads :
        Done(t) /\ source[t].kind \in {"missing", "bad_toml", "unreadable"} =>
            /\ result[t].ok = FALSE
            /\ Len(Returned(t)) = 1
            /\ Returned(t)[1].level = ERROR
            /\ Returned(t)[1].path = ""
            /\ Returned(t)[1].message \in {"Configuration file not found",
                                           "Invalid TOML syntax", "Error reading file"}
            /\ routines[t] = {}
            /\ config[t] = EmptyMap

\* a call on a file that is no TOML returned
C4_Witness ==
    \E t \in Threads :
        /\ Done(t)
        /\ source[t].kind = "bad_toml"
        /\ Len(Returned(t)) = 1

\* the value at the end of a path of keys below v (found is FALSE when a key
\* is missing or a value on the way is no table)
RECURSIVE Lookup(_, _)
Lookup(v, keys) ==
    IF keys = <<>> THEN [found |-> TRUE, v |-> v]
    ELSE IF v.t = "map" /\ Head(keys) \in DOMAIN v.m
         THEN Lookup(v.m[Head(keys)], Tail(keys))
         ELSE [found |-> FALSE, v |-> v]

IntField(keys, path, lo, hi) == [keys |-> keys, path |-> path, lo |-> lo, hi |-> hi]

\* the integer-range fields and the bounds the routines give them
IntegerFields ==
    {IntField(<<"api", "timeout">>, "api.timeout", 1, 300),
     IntField(<<"api", "max_retries">>, "api.max_retries", 0, 10),
     IntField(<<"repl", "history_size">>, "repl.history_size", 0, 100000),
     IntField(<<"repl", "auto_save_interval">>, "repl.auto_save_interval", 0, 3600),
     IntField(<<"logging", "max_files">>, "logging.max_files", 1, 100),
     IntField(<<"tools", "commands", "timeout">>, "tools.commands.timeout", 1, 300),
     IntField(<<"session", "max_context_size">>, "session.max_context_size", 1000, 1000000),
     IntField(<<"ui", "max_width">>, "ui.max_width", 40, 200),
     IntField(<<"response", "max_tokens">>, "response.max_tokens", 1, 100000),
     IntField(<<"network", "timeout_connect">>, "network.timeout_connect", 1, 60),
     IntField(<<"network", "timeout_read">>, "network.timeout_read", 1, 300),
     IntField(<<"debug", "mock_delay_ms">>, "debug.mock_delay_ms", 0, 5000),
     IntField(<<"models", "fast", "max_tokens">>, "models.fast.max_tokens", 1, 100000),
     IntField(<<"models", "beta", "max_tokens">>, "models.beta.max_tokens", 1, 100000)}

\* C5: for every integer-range field with bounds (min, max), the values min
\* and max give no issue at the field's path, and the values min - 1 and
\* max + 1 each give exactly one issue there, an ERROR (bounds are inclusive).
C5_InclusiveBounds ==
    \A t \in Threads :
        Done(t) /\ source[t].kind = "ok" =>
            \A fld \in IntegerFields :
                LET got == Lookup(config[t], fld.keys)
                    at == Where(Returned(t), LAMBDA x : x.path = fld.path)
                IN  /\ fld.lo <= fld.hi
                    /\ got.found /\ got.v \in {VInt(fld.lo), VInt(fld.hi)} => at = {}
                    /\ got.found /\ got.v \in {VInt(fld.lo - 1), VInt(fld.hi + 1)} =>
                           /\ Cardinality(at) = 1
                           /\ \A i \in at :
                                  /\ Returned(t)[i].level = ERROR
                                  /\ Returned(t)[i].message = "Must be between"
                                  /\ Returned(t)[i].arg = RangeArg(fld.lo, fld.hi)

\* a call returned for session.max_context_size = 1000001 with its one ERROR
C5_Witness ==
    \E t \in Threads :
        /\ Done(t)
        /\ config[t] = Map1("session", Map1("max_context_size", VInt(1000001)))
        /\ Len(Returned(t)) = 1
        /\ ~result[t].ok

\* the boolean fields of the sections with fixed fields
BooleanFields ==
    {<<"repl", f>> : f \in {"colored_prompt", "welcome_banner", "vi_mode", "multiline_mode"}}
    \cup {<<"security", f>> : f \in {"mask_api_key", "audit_tools", "validate_ssl",
                                      "sanitize_logs"}}
    \cup {<<"debug", f>> : f \in {"show_raw_api_calls", "save_recordings", "verbose_errors"}}

\* the boolean fields present in a document, with every entry of features
BooleanFieldsOf(conf) ==
    {kf \in BooleanFields : Lookup(conf, kf).found}
    \cup (IF Lookup(conf, <<"features">>).found /\ conf.m["features"].t = "map"
          THEN {<<"features", f>> : f \in DOMAIN conf.m["features"].m}
          ELSE {})

\* C6: for every boolean field (the repl, security and debug flags and every
\* entry of features), a value that is not of boolean type (integer 0 or 1,
\* string "true", float, sequence, mapping) gives exactly one issue at the
\* field's path, the ERROR "Must be true or false"; a boolean gives none.
C6_StrictBoolean ==
    \A t \in Threads :
        Done(t) /\ source[t].kind = "ok" =>
            \A kf \in BooleanFieldsOf(config[t]) :
                LET value == Lookup(config[t], kf).v
                    at == Where(Returned(t), LAMBDA x : x.path = kf[1] \o "." \o kf[2])
                IN  IF value.t = "bool"
                    THEN at = {}
                    ELSE /\ Cardinality(at) = 1
                         /\ \A i \in at :
                                /\ Returned(t)[i].level = ERROR
                                /\ Returned(t)[i].message = "Must be true or false"

\* a call returned for security.validate_ssl = 1 with its one ERROR
C6_Witness ==
    \E t \in Threads :
        /\ Done(t)
        /\ config[t] = Map1("security", Map1("validate_ssl", VInt(1)))
        /\ Len(Returned(t)) = 1
        /\ Returned(t)[1].path = "security.validate_ssl"
        /\ ~result[t].ok

\* the routine of a section
RoutineOf(s, v) ==
    CASE s = "api" -> validate_api(v)
      [] s = "repl" -> validate_repl(v)
      [] s = "logging" -> validate_logging(v)
      [] s = "tools" -> validate_tools(v)
      [] s = "session" -> validate_session(v)
      [] s = "ui" -> validate_ui(v)
      [] s = "response" -> validate_response(v)
      [] s = "network" -> validate_network(v)
      [] s = "security" -> validate_security(v)
      [] s = "debug" -> validate_debug(v)
      [] s = "aliases" -> validate_aliases(v)
      [] s = "models" -> validate_models(v)
      [] s = "prompts" -> validate_prompts(v)
      [] s = "features" -> validate_features(v)

\* the order in which a routine looks at the fields of its table: the order
\* of its checks, or the order of the entries where the keys are user-defined
CheckOrder(s, sec) ==
    IF s \in {"aliases", "models", "prompts", "features"} THEN sec.o ELSE Fields(s)

\* the issues of each present field of section s on its own, one after the
\* other (of the whole value when it is no table)
RECURSIVE FieldByField(_, _, _)
FieldByField(s, sec, fields) ==
    IF sec.t # "map" THEN RoutineOf(s, sec).iss
    ELSE IF fields = <<>> THEN <<>>
    ELSE (IF Head(fields) \in DOMAIN sec.m
          THEN RoutineOf(s, Map1(Head(fields), sec.m[Head(fields)])).iss
          ELSE <<>>)
         \o FieldByField(s, sec, Tail(fields))

RECURSIVE SectionBySection(_, _)
SectionBySection(conf, sections) ==
    IF sections = <<>> THEN <<>>
    ELSE (IF Head(sections) \in DOMAIN conf.m
          THEN LET sec == conf.m[Head(sections)]
               IN  FieldByField(Head(sections), sec, CheckOrder(Head(sections), sec))
          ELSE <<>>)
         \o SectionBySection(conf, Tail(sections))

\* C7: validation is wide, not fail-fast: the issue list validate_file returns
\* for a document is the warnings of the structural scan, then for each
\* section in turn the issues each present field gives on its own, then the
\* cross-validation warnings; an issue recorded for one field removes no issue
\* of a sibling field or of a later section.
C7_WideValidation ==
    \A t \in Threads :
        Done(t) /\ source[t].kind = "ok" =>
            Returned(t) = validate_structure(config[t]).iss
                          \o SectionBySection(config[t], Sections)
                          \o cross_validate(config[t]).iss

\* a call returned for the document of api.model = "bogus-model" and
\* api.timeout = 500 with two ERRORs, at api.model and at api.timeout, and
\* ok = false
C7_Witness ==
    \E t \in Threads :
        /\ Done(t)
        /\ config[t] = Map1("api", Map2("model", VStr(<<"b", "o", "g", "u", "s", "-", "m", "o", "d", "e", "l">>), "timeout", VInt(500)))
        /\ Len(Returned(t)) = 2
        /\ Returned(t)[1].path = "api.model" /\ Returned(t)[1].level = ERROR
        /\ Returned(t)[2].path = "api.timeout" /\ Returned(t)[2].level = ERROR
        /\ ~result[t].ok

\* the soft rule of a section as claimed: its flag is true and its other key is
\* not present
RuleAsClaimed(conf, section, flag, needed) ==
    /\ Lookup(conf, <<section, flag>>).found
    /\ Lookup(conf, <<section, flag>>).v = VBool(TRUE)
    /\ ~Lookup(conf, <<section, needed>>).found

\* the soft rule of a section as the code has it: its flag is truthy and its
\* other key is absent or falsy
RuleAsCoded(conf, section, flag, needed) ==
    /\ Lookup(conf, <<section, flag>>).found
    /\ Truthy(Lookup(conf, <<section, flag>>).v)
    /\ \/ ~Lookup(conf, <<section, needed>>).found
       \/ ~Truthy(Lookup(conf, <<section, needed>>).v)

\* the issues at the path of a section are one WARNING when Rule holds of the
\* document and none otherwise
SoftRule(t, section, holds) ==
    LET at == Where(Returned(t), LAMBDA x : x.path = section)
    IN  /\ Cardinality(at) = (IF holds THEN 1 ELSE 0)
        /\ \A i \in at : Returned(t)[i].level = WARNING

\* C8 as claimed: the result holds exactly one WARNING at path "logging"
\* exactly when logging.log_requests is true and the key logging.file is not
\* present, and exactly one WARNING at path "session" exactly when
\* session.auto_save is true and the key session.default_dir is not present.
C8_WarnsWhenKeyAbsent ==
    \A t \in Threads :
        Done(t) /\ source[t].kind = "ok" =>
            /\ SoftRule(t, "logging",
                        RuleAsClaimed(config[t], "logging", "log_requests", "file"))
            /\ SoftRule(t, "session",
                        RuleAsClaimed(config[t], "session", "auto_save", "default_dir"))

\* C8, amended: the result holds exactly one WARNING at path "logging" exactly
\* when logging.log_requests is truthy (true, a number other than 0, a
\* non-empty string, sequence or table) and logging.file is absent or falsy
\* (such as the empty string), and exactly one WARNING at path "session"
\* exactly when session.auto_save is truthy and session.default_dir is absent
\* or falsy; they are never ERRORs and ok is as it is without them.
C8_WarnsWhenTruthyAndFalsy ==
    \A t \in Threads :
        Done(t) /\ source[t].kind = "ok" =>
            /\ SoftRule(t, "logging",
                        RuleAsCoded(config[t], "logging", "log_requests", "file"))
            /\ SoftRule(t, "session",
                        RuleAsCoded(config[t], "session", "auto_save", "default_dir"))
            /\ result[t].ok
                   <=> Errors(SelectSeq(Returned(t),
                                        LAMBDA x : x.path \notin {"logging", "session"})) = {}

\* a call returned ok = true with the one WARNING at "logging" for
\* log_requests = true and file = ""
C8_Witness ==
    \E t \in Threads :
        /\ Done(t)
        /\ config[t] = Map1("logging", Map2("log_requests", VBool(TRUE), "file", VStr(<<>>)))
        /\ Len(Returned(t)) = 1
        /\ Returned(t)[1].path = "logging"
        /\ result[t].ok

\* C9 as claimed: each command string of tools.commands.allowed_commands gives
\* zero or one issue: one WARNING if it contains a fragment of the dangerous
\* set, none otherwise; so n commands give at most n warnings.
C9_OneWarningPerCommand ==
    \A t \in Threads :
        Done(t) /\ source[t].kind = "ok" =>
            LET got == Lookup(config[t], <<"tools", "commands", "allowed_commands">>)
                at == Where(Returned(t),
                            LAMBDA x : x.path = "tools.commands.allowed_commands")
            IN  got.found /\ got.v.t = "seq"
                /\ (\A j \in 1..Len(got.v.q) : got.v.q[j].t = "str") =>
                    /\ \A i \in at : Returned(t)[i].level = WARNING
                    /\ Cardinality(at) =
                           Cardinality({j \in 1..Len(got.v.q) :
                                            \E d \in DANGEROUS_COMMANDS :
                                                Substring(d, got.v.q[j].s)})

\* C10 as claimed: in every interleaving of two validate_file calls, on one
\* validator or on two, each call returns the (ok, issues) it returns when it
\* runs alone.
C10_ReturnsAsAlone ==
    \A t \in Threads :
        Done(t) =>
            /\ result[t].ok = Alone(source[t]).ok
            /\ Returned(t) = Alone(source[t]).iss

\* C11: validation leaves the configuration document unchanged: from the
\* parse on, through the structural scan, every section routine and
\* cross-validation, and after validate_file returned or raised, the document
\* tree has the keys, the key order and the values it was parsed to.
C11_DocumentUnchanged ==
    \A t \in Threads :
        source[t].kind = "ok" /\ pc[t] \notin {"idle", "exists", "parse"} =>
            config[t] = source[t].doc

\* a call returned for a document with a session table and no logging table,
\* after cross-validation looked both up
C11_Witness ==
    \E t \in Threads :
        /\ Done(t)
        /\ source[t].kind = "ok"
        /\ "session" \in routines[t]
        /\ "logging" \notin DOMAIN source[t].doc.m
        /\ config[t] = source[t].doc

\* C12 as claimed: a run of the command-line wrapper on a configuration file
\* ends with status 0 when the validator's issue list is empty, with status 0
\* when the list holds only WARNING and INFO issues, and with a status other
\* than 0 if and only if the list holds at least one ERROR.
C12_ExitCodeByIssues ==
    \A t \in Threads :
        pc[t] = "exited" /\ source[t].kind # "none" =>
            LET list == heap[Ref(t)]
            IN  /\ list = <<>> => exit[t] = 0
                /\ Errors(list) = {} => exit[t] = 0
                /\ exit[t] # 0 <=> Errors(list) # {}

\* C13 as claimed: the schema dump is a function of the static rule data
\* alone: any two schema dumps give structurally identical output, whatever
\* was validated before or between them.
C13_SchemaDumpsIdentical ==
    \A i, j \in DOMAIN schema : schema[i] = schema[j]

\* C14 as claimed: for every integer-range field, a value whose type is not
\* Integer (a String, Float, Boolean, Sequence or Mapping) gives exactly one
\* issue at the field's path, the ERROR "Must be an integer", and only an
\* Integer value is compared with the bounds.
C14_NonIntegerRejected ==
    \A t \in Threads :
        Done(t) /\ source[t].kind = "ok" =>
            \A fld \in IntegerFields :
                LET got == Lookup(config[t], fld.keys)
                    at == Where(Returned(t), LAMBDA x : x.path = fld.path)
                IN  got.found =>
                        IF got.v.t = "int"
                        THEN \A i \in at : Returned(t)[i].message = "Must be between"
                        ELSE /\ Cardinality(at) = 1
                             /\ \A i \in at :
                                    /\ Returned(t)[i].level = ERROR
                                    /\ Returned(t)[i].message = "Must be an integer"

\* the documents with the keys and values of conf, in every order of its
\* top-level keys
Reorderings(conf) ==
    {[t |-> "map", o |-> order, m |-> conf.m] : order \in ListsOf(DOMAIN conf.m)}

\* the issues of the routines of the sections present in conf, each on its
\* section, in the order of sections
RECURSIVE InSectionOrder(_, _)
InSectionOrder(conf, sections) ==
    IF sections = <<>> THEN <<>>
    ELSE (IF Head(sections) \in DOMAIN conf.m
          THEN RoutineOf(Head(sections), conf.m[Head(sections)]).iss
          ELSE <<>>)
         \o InSectionOrder(conf, Tail(sections))

\* C15: the order of the issues is fixed by the engine, not by the input: the
\* list validate_file returns is the unknown-top-level-key warnings, then the
\* issues of the sections in the order api, repl, logging, tools, session, ui,
\* response, network, security, debug, aliases, models, prompts, features,
\* then the cross-validation warnings; and every document with the same keys
\* and values in another order of the top-level keys gives the same section
\* issues and cross-validation warnings in the same order, after as many
\* unknown-key warnings.
C15_FixedSectionOrder ==
    \A t \in Threads :
        Done(t) /\ source[t].kind = "ok" =>
            LET unknown == validate_structure(config[t]).iss
                rest == InSectionOrder(config[t], Sections) \o cross_validate(config[t]).iss
            IN  /\ Returned(t) = unknown \o rest
                /\ \A i \in 1..Len(unknown) : unknown[i].message = "Unknown top-level table"
                /\ \A d \in Reorderings(config[t]) :
                       LET other == validate_document(d)
                       IN  /\ other.exc = ""
                           /\ Len(other.iss) = Len(Returned(t))
                           /\ SubSeq(other.iss, Len(unknown) + 1, Len(other.iss)) = rest
                           /\ \A i \in 1..Len(unknown) :
                                  other.iss[i].message = "Unknown top-level table"

\* a call returned for a document whose repl table comes before its api
\* table, with the two ERRORs of api before the ERROR of repl
C15_Witness ==
    \E t \in Threads :
        /\ Done(t)
        /\ config[t].o = <<"repl", "api">>
        /\ Len(Returned(t)) = 3
        /\ Returned(t)[1].path = "api.model"
        /\ Returned(t)[2].path = "api.timeout"
        /\ Returned(t)[3].path = "repl.vi_mode"

\* validate_file is over for thread t: it returned or it raised
Over(t) == pc[t] \in {"done", "raised"}

EnumField(keys, path, valid) == [keys |-> keys, path |-> path, valid |-> valid]

\* the enumerated fields and their allowed sets
EnumFields ==
    {EnumField(<<"api", "model">>, "api.model", VALID_MODELS),
     EnumField(<<"logging", "level">>, "logging.level", VALID_LOG_LEVELS),
     EnumField(<<"logging", "format">>, "logging.format", VALID_LOG_FORMATS),
     EnumField(<<"session", "prune_strategy">>, "session.prune_strategy", valid_strategies),
     EnumField(<<"ui", "theme">>, "ui.theme", VALID_THEMES),
     EnumField(<<"ui", "spinner_style">>, "ui.spinner_style", VALID_SPINNER_STYLES),
     EnumField(<<"response", "format">>, "response.format", valid_formats)}

\* value is in the allowed set of an enumerated field
Allowed(fld, value) == value.t = "str" /\ value.s \in fld.valid

\* C16 as claimed: for every enumerated field (api.model, logging.level,
\* logging.format, session.prune_strategy, ui.theme, ui.spinner_style,
\* response.format), a value outside the field's allowed set gives exactly one
\* issue at the field's path, an ERROR, so that ok is false; a value in the
\* set gives no issue there.  This is said of every result validate_file
\* returns, and of the document that holds the field and nothing else, where
\* validate_file then has to return.
C16_EnumOutsideIsError ==
    \A t \in Threads :
        Over(t) /\ source[t].kind = "ok" =>
            \A fld \in EnumFields :
                LET got == Lookup(config[t], fld.keys)
                    at == Where(heap[Ref(t)], LAMBDA x : x.path = fld.path)
                IN  /\ Done(t) /\ got.found =>
                           IF Allowed(fld, got.v)
                           THEN at = {}
                           ELSE /\ ~result[t].ok
                                /\ Cardinality(at) = 1
                                /\ \A i \in at : Returned(t)[i].level = ERROR
                    /\ got.found /\ config[t] = Map1(fld.keys[1], Map1(fld.keys[2], got.v)) =>
                           Done(t)

\* the elements of an allowed_extensions array that are not strings starting
\* with "."
BadExtensions(q) == {j \in 1..Len(q) : ~(q[j].t = "str" /\ StartsWith(q[j].s, Dot))}

\* the elements of an allowed_commands array that hold a dangerous fragment
DangerousElements(q) ==
    {j \in 1..Len(q) : q[j].t = "str" /\ \E d \in DANGEROUS_COMMANDS : Substring(d, q[j].s)}

\* the issues at path are one ERROR "Must be an array of strings" when value
\* is no sequence, and one issue of the given level for each of the violating
\* elements when it is one
ListField(t, path, value, level, violating) ==
    LET at == Where(Returned(t), LAMBDA x : x.path = path)
    IN  IF value.t # "seq"
        THEN /\ Cardinality(at) = 1
             /\ \A i \in at : /\ Returned(t)[i].level = ERROR
                                /\ Returned(t)[i].message = "Must be an array of strings"
        ELSE /\ Cardinality(at) = Cardinality(violating)
             /\ \A i \in at : Returned(t)[i].level = level

\* C17 as claimed: for tools.allowed_extensions and for
\* tools.commands.allowed_commands, a value that is no sequence gives exactly
\* one ERROR at the field's path and no element is checked; a sequence gives
\* one issue for each violating element: as many ERRORs as there are elements
\* that are no strings starting with "." for allowed_extensions, as many
\* WARNINGs as there are elements holding a dangerous fragment for
\* allowed_commands.  A document holding only such a field is validated to a
\* result.
C17_OneIssuePerViolatingElement ==
    \A t \in Threads :
        Over(t) /\ source[t].kind = "ok" =>
            LET ext == Lookup(config[t], <<"tools", "allowed_extensions">>)
                cmd == Lookup(config[t], <<"tools", "commands", "allowed_commands">>)
            IN  /\ Done(t) /\ ext.found =>
                       ListField(t, "tools.allowed_extensions", ext.v, ERROR,
                                 IF ext.v.t = "seq" THEN BadExtensions(ext.v.q) ELSE {})
                /\ Done(t) /\ cmd.found =>
                       ListField(t, "tools.commands.allowed_commands", cmd.v, WARNING,
                                 IF cmd.v.t = "seq" THEN DangerousElements(cmd.v.q) ELSE {})
                /\ ext.found /\ config[t] = Map1("tools", Map1("allowed_extensions", ext.v)) =>
                       Done(t)
                /\ cmd.found
                   /\ config[t] = Map1("tools", Map1("commands",
                                                     Map1("allowed_commands", cmd.v))) =>
                       Done(t)

\* the document without the inline credential api.api_key
WithoutApiKey(conf) ==
    [conf EXCEPT !.m["api"] = Without(@, "api_key")]

\* the issues of list but those at path
Besides(list, path) == SelectSeq(list, LAMBDA x : x.path # path)

\* C18: for every document whose api section is a table holding api_key,
\* with any value, the outcome is that of the document without the key, plus
\* exactly one issue at path api.api_key, a WARNING: ok is the same, every
\* other issue is the same and in the same order, and where validation of the
\* one raises, validation of the other raises the same exception.
C18_CredentialOnlyWarns ==
    \A t \in Threads :
        /\ Over(t)
        /\ source[t].kind = "ok"
        /\ Lookup(config[t], <<"api", "api_key">>).found
        => LET list == heap[Ref(t)]
               at == Where(list, LAMBDA x : x.path = "api.api_key")
               plain == Alone(Source("ok", WithoutApiKey(config[t])))
           IN  /\ Cardinality(at) = 1
               /\ \A i \in at : list[i].level = WARNING
               /\ Besides(list, "api.api_key") = plain.iss
               /\ exc[t] = plain.exc
               /\ Done(t) => result[t].ok = plain.ok

\* a call returned ok = false for an api table with api_key and a timeout out
\* of range: the WARNING of the key, then the ERROR of the timeout
C18_Witness ==
    \E t \in Threads :
        /\ Done(t)
        /\ Lookup(config[t], <<"api", "api_key">>).found
        /\ Lookup(config[t], <<"api", "timeout">>).found
        /\ Len(Returned(t)) = 2
        /\ Returned(t)[1].path = "api.api_key" /\ Returned(t)[1].level = WARNING
        /\ Returned(t)[2].path = "api.timeout" /\ Returned(t)[2].level = ERROR
        /\ ~result[t].ok

\* C19: a validator can be used again: after any sequence of validate_file
\* calls on one validator, the outcome of the last call is the outcome of a
\* call on its source alone (no issue of an earlier call is in it, whether the
\* earlier call returned early, returned after full validation or raised),
\* and every issue list an earlier call returned still holds exactly the
\* issues it held when it was returned.
C19_ReuseIsClean ==
    /\ \A t \in Threads :
           Over(t) =>
               /\ heap[Ref(t)] = Alone(source[t]).iss
               /\ exc[t] = Alone(source[t]).exc
               /\ Done(t) => /\ result[t].ok = Alone(source[t]).ok
                             /\ result[t].ref = Ref(t)
    /\ \A i \in DOMAIN returned : heap[returned[i].ref] = returned[i].iss

\* the second call on a validator returned its one ERROR of api.timeout,
\* after a first call that returned early on a missing file, whose list
\* still holds its one ERROR
C19_Witness ==
    /\ Len(returned) = 2
    /\ Len(returned[1].iss) = 1
    /\ returned[1].iss[1].message = "Configuration file not found"
    /\ heap[returned[1].ref] = returned[1].iss
    /\ \E t \in Threads :
           /\ Done(t)
           /\ source[t].kind = "ok"
           /\ Len(Returned(t)) = 1
           /\ Returned(t)[1].path = "api.timeout"
====
